---- MODULE Spec2Model ----
(***************************************************************************)
(* Session socket and audio-turn coordination of the practice client:      *)
(* pages/VoiceSession.jsx (src/unnamed/part_003), pages/CameraSession.jsx, *)
(* hooks/use-audio-recorder.js, hooks/use-text-to-speech.js and the voice  *)
(* store (src/unnamed/part_001).                                           *)
(*                                                                         *)
(* One session view is modelled.  Every event-loop task (a DOM event, a    *)
(* socket event, a timer, a resolved promise, a React passive effect) is   *)
(* one action.  Refs (useRef) and React state (useState) are variables.    *)
(***************************************************************************)
EXTENDS Integers, Sequences, FiniteSets, TLC

\* ---- program constants -------------------------------------------------
WS_RECONNECT_BASE_MS == 1000
WS_RECONNECT_MAX_MS == 16000
WS_MAX_RETRIES == 5
\* values of event.code seen by ws.onclose
NORMAL_CLOSURE == 1000
NO_STATUS == 1005
ABNORMAL_CLOSURE == 1006
\* useSilenceDetection(handleSilenceDetected, { threshold: 0.04, durationMs: 2000 });
\* levels are counted in hundredths
SILENCE_THRESHOLD == 4
SILENCE_DURATION_MS == 2000
\* the phrase sent in place of an empty transcript
FALLBACK_TEXT == <<"I understand your point and would like to respond...">>

\* ---- bounds of the model -----------------------------------------------
MaxSockets == 2      \* socket objects not yet closed at one time
MaxTimers == 2       \* reconnect timeouts pending at one time
MaxPending == 1      \* getUserMedia requests in flight at one time
MaxUtter == 1        \* utterances queued in speechSynthesis at one time
MaxCancelled == 1    \* cancelled utterances whose error event is still due
MaxStopping == 1     \* turn-stops waiting for the recorder's stop event at one time
MaxLen == 4          \* characters of the recognised transcript
FrameGapMs == 1000   \* time between two frames of the silence loop
MaxFillers == 2      \* filler words listed by one analysis
MaxScore == 2        \* clarity score of one analysis
MaxFillerCount == 3  \* AppStore fillerCount
MaxSetups == 2       \* setup() calls of the camera effect not yet returned at one time
MaxCamLoops == 2     \* analysis loops scheduled at one time
MaxTouch == 2        \* frames with a fingertip on the face between two store resets
MaxMsgs == 4         \* chat messages listed, those of the requests in flight included
MaxChatReq == 2      \* chat requests in flight at one time

SockIds == 1..MaxSockets
TimerIds == 1..MaxTimers
StopIds == 1..MaxStopping
SetupIds == 1..MaxSetups
CloseCodes == {NORMAL_CLOSURE, NO_STATUS, ABNORMAL_CLOSURE}
StartOutcomes == {"ok", "denied", "ctxfail"}
Chars == {" ", "a"}
Levels == {SILENCE_THRESHOLD - 1, SILENCE_THRESHOLD}

Min(a, b) == IF a < b THEN a ELSE b

VARIABLES
  page,            \* "voice" (VoiceSession) or "camera" (CameraSession)
  phase,           \* "init" | "mounted" | "unmounted"
  sockets,         \* socket id -> [rs, code, manual]
  wsRef,           \* wsRef.current: a socket id, 0 for null
  reconnectCount,  \* reconnectCountRef.current
  timers,          \* timer id -> delay in ms of a pending setTimeout(connectWs), 0 = none
  timerRef,        \* reconnectTimerRef.current: a timer id, 0 for null
  wsStatus,        \* useState wsStatus
  welcomePlayed,   \* welcomePlayedRef.current
  depsChanged,     \* the socket effect's dependencies changed since it last ran
  isHolding,       \* useState isHolding
  isRecording,     \* useState isRecording (VoiceSession)
  voiceInputMode,  \* useState voiceInputMode (VoiceSession): "push" | "hold"
  vstate,          \* voice store `state`
  micStream,       \* streamRef.current: "none" | "live" | "stopped"
  recorder,        \* mediaRecorderRef.current: "none" | "recRef" | "recLeak" | "inactive"
  leaked,          \* some live microphone stream is no longer held by streamRef
  pendingAcq,      \* startRecording calls suspended in getUserMedia
  synth,           \* speechSynthesis queue: sequence of [src, old]
  cancelled,       \* cancelled utterances whose error/end event is not yet delivered
  closeEvt,        \* history: code of the close event the last step handled, 0 if it handled none
  delayLog,        \* history: delays scheduled since the last open event (or mount)
  sinceOpen,       \* history: abnormal closes handled since the last open event, -1 before any
  welcomeSpoken,   \* history: a welcome utterance was spoken since mount
  cutAtStart,      \* history: the last turn-start found an utterance in the queue
  transcript,      \* useSpeechRecognition transcript (and transcriptRef): sequence of characters
  recog,           \* recognition engine: "off" | "starting" | "on" | "stopping" | "cleanupStop"
  stopsPending,    \* stopRecording promise -> "none" | "pending" | "timedout" (resolved by
                   \* its 5000 ms timer, the recorder's stop event still due)
  recAnalyser,     \* useAudioRecorder analyserRef.current is set
  analyserAttached,\* analyserAttachedRef.current (VoiceSession)
  rafLoop,         \* useSilenceDetection rafRef.current: the sampling loop is scheduled
  silentFor,       \* ms between silenceStartRef.current and the last frame, -1 for null
  fired,           \* firedRef.current
  firedOnce,       \* history: the silence callback was invoked since the last attach or detach
  sentMsg,         \* history: what the last step did with an outbound message
  stepLog,         \* history: what else the last step did: [frame, resolved, end];
                   \* frame: "none", "bad", or the text of the frame it handled
  aiQuestion,      \* useState aiQuestion: "" | "welcome" | "ai" (whose text is displayed)
  metrics,         \* AppStore [fillerCount, wpm]
  analysisLog,     \* history: [fillers, score]: filler words of all the analyses received,
                   \* clarity score of the last analysis with a numeric one (-1: none yet)
  speechSupported, \* window.speechSynthesis exists
  endReq,          \* the REST call of handleEnd: "none" | "pending"
  chunks,          \* audioChunksRef.current is not empty
  loopStale,       \* the silence loop samples an analyser older than analyserRef.current
  loops,           \* requestAnimationFrame callbacks of the silence loop that are scheduled
  reattached,      \* history: the last attachAnalyser call found a loop scheduled
  camEffect,       \* CameraSession camera effect: "idle" | "active" | "cleaned"
  setups,          \* setup() call -> [pc, cancelled]; pc: "free" | "init" | "wait" |
                   \* "acquire" | "play" | "aborted" (play() pending on a video whose
                   \* srcObject was replaced)
  modelsLoaded,    \* useBodyLanguage modelsLoadedRef.current
  landmarkers,     \* face/pose/handLandmarkerRef.current are set
  camStream,       \* useBodyLanguage streamRef.current: "none" | "live"
  camLeaked,       \* some live camera stream is not held by streamRef
  camRaf,          \* useBodyLanguage rafRef.current is set
  camLoops,        \* requestAnimationFrame callbacks of the analysis loop that are scheduled
  cameraStore,     \* camera store [isActive, isLoading, error, nervousHabits]
  storeChanged,    \* the camera store was replaced since the camera effect last ran
  cameraReady,     \* useState cameraReady
  initError,       \* useState initError is set
  touchFrames,     \* history: frames since the last store reset whose analysis found a
                   \* fingertip on the face
  camStopped,      \* history: stop() ran and startCamera was not called since
  route,           \* chat flow: "home" | "chat" | "feedback"
  input,           \* ChatSession useState input: sequence of characters
  isAiTyping,      \* AppStore isAiTyping
  chatMessages,    \* AppStore chatMessages: sequence of [role, content]
  chatPending      \* sendMessage requests of handleSend that are in flight

bodyVars == <<camEffect, setups, modelsLoaded, landmarkers, camStream, camLeaked, camRaf,
              camLoops, cameraStore, storeChanged, cameraReady, initError, touchFrames,
              camStopped>>
chatVars == <<route, input, isAiTyping, chatMessages, chatPending>>
sessionVars == <<page, phase, sockets, wsRef, reconnectCount, timers, timerRef, wsStatus,
                 welcomePlayed, depsChanged, isHolding, isRecording, voiceInputMode, vstate,
                 micStream, recorder, leaked, pendingAcq, synth, cancelled,
                 closeEvt, delayLog, sinceOpen, welcomeSpoken, cutAtStart,
                 transcript, recog, stopsPending, recAnalyser, analyserAttached, rafLoop,
                 silentFor, fired, firedOnce, sentMsg, stepLog, aiQuestion, metrics,
                 analysisLog, speechSupported, endReq, chunks, loopStale, loops, reattached>>
connVars == <<sockets, wsRef, reconnectCount, timers, timerRef, wsStatus>>
micVars == <<micStream, recorder, leaked, pendingAcq>>
turnVars == <<isHolding, isRecording, voiceInputMode, cutAtStart>>
speechVars == <<synth, cancelled>>
histVars == <<delayLog, sinceOpen, welcomeSpoken>>
recogVars == <<transcript, recog>>
silenceVars == <<analyserAttached, rafLoop, silentFor, fired, firedOnce, loopStale, loops, reattached>>
voiceVars == <<transcript, recog, stopsPending, recAnalyser, analyserAttached, rafLoop,
               silentFor, fired, firedOnce, loopStale, loops, reattached>>
vars == <<page, phase, sockets, wsRef, reconnectCount, timers, timerRef, wsStatus,
          welcomePlayed, depsChanged, isHolding, isRecording, voiceInputMode, vstate,
          micStream, recorder, leaked, pendingAcq, synth, cancelled,
          closeEvt, delayLog, sinceOpen, welcomeSpoken, cutAtStart,
          transcript, recog, stopsPending, recAnalyser, analyserAttached, rafLoop,
          silentFor, fired, firedOnce, sentMsg, stepLog, aiQuestion, metrics, analysisLog, speechSupported, endReq, chunks,
          loopStale, loops, reattached, bodyVars, chatVars>>

\* ---- WebSocket objects ---------------------------------------------------
FreeSock == [rs |-> "FREE", code |-> 0, manual |-> FALSE]
NewSock(manual) == [rs |-> "CONNECTING", code |-> 0, manual |-> manual]

Live(s) == s.rs \in {"CONNECTING", "OPEN"}

\* WebSocket.close(): a CONNECTING socket fails (close event 1006), an OPEN one
\* starts the closing handshake (close event carries `c`), otherwise nothing.
CloseSocket(s, c) ==
  IF s.rs = "CONNECTING" THEN [s EXCEPT !.rs = "CLOSING", !.code = ABNORMAL_CLOSURE]
  ELSE IF s.rs = "OPEN" THEN [s EXCEPT !.rs = "CLOSING", !.code = c]
  ELSE s

\* A closed socket that wsRef does not hold is unreachable: its slot is reused.
Gc(socks, ref) ==
  [i \in SockIds |-> IF socks[i].rs = "CLOSED" /\ i # ref THEN FreeSock ELSE socks[i]]

\* a slot a new socket can take: an unused one, or that of the closed socket
\* wsRef is about to let go of
Reusable(socks, ref, i) == socks[i].rs = "FREE" \/ (i = ref /\ socks[i].rs = "CLOSED")

FreshSock(socks, ref) ==
  CHOOSE i \in SockIds :
    Reusable(socks, ref, i) /\ \A j \in SockIds : Reusable(socks, ref, j) => i <= j

CanConnect == \E i \in SockIds : Reusable(sockets, wsRef, i)

\* mutant: connectWs that forgets to close the socket it replaces
ClosePrevious_Skip(socks, ref, c) == socks

\* connectWs: if (wsRef.current) { try { wsRef.current.close(); } catch {} }
ClosePrevious(socks, ref, c) ==
  IF ref = 0 THEN socks ELSE [socks EXCEPT ![ref] = CloseSocket(socks[ref], c)]

\* connectWs: close the held socket, create a new one, store it in wsRef.
ConnectWs(socks, ref, c, manual) ==
  LET id == FreshSock(socks, ref)
      closed == ClosePrevious(socks, ref, c)
  IN [socks |-> Gc([closed EXCEPT ![id] = NewSock(manual)], id), ref |-> id]

\* ---- reconnect timers ----------------------------------------------------
FreshTimer(ts) ==
  CHOOSE t \in TimerIds : ts[t] = 0 /\ \A u \in TimerIds : ts[u] = 0 => t <= u

CanSchedule == \E t \in TimerIds : timers[t] = 0

\* clearTimeout(reconnectTimerRef.current), guarded by `if (reconnectTimerRef.current)`
ClearTimer(ts, ref) == IF ref = 0 THEN ts ELSE [ts EXCEPT ![ref] = 0]

\* mutant: linear instead of exponential backoff
ReconnectDelay_Linear(n) == Min(WS_RECONNECT_BASE_MS * (n + 1), WS_RECONNECT_MAX_MS)

\* Math.min(WS_RECONNECT_BASE_MS * Math.pow(2, reconnectCountRef.current), WS_RECONNECT_MAX_MS)
ReconnectDelay(n) == Min(WS_RECONNECT_BASE_MS * (2 ^ n), WS_RECONNECT_MAX_MS)

\* mutant: onclose without the normal-closure early return
IsNormalClose_Never(code) == FALSE

\* ws.onclose: if (event.code === 1000) return;
IsNormalClose(code) == code = NORMAL_CLOSURE

\* mutant: onopen that leaves the retry counter alone
OpenHandler_KeepCount(n) == [count |-> n, status |-> "connected"]

\* ws.onopen: reconnectCountRef.current = 0; setWsStatus('connected')
OpenHandler(n) == [count |-> 0, status |-> "connected"]

\* ---- speech synthesis ------------------------------------------------------
\* mutant: stop() that forgets speechSynthesis.cancel()
CancelSpeech_Skip(q) == q

\* useTextToSpeech.stop: speechSynthesis.cancel() empties the queue
CancelSpeech(q) == <<>>

\* cancelled utterances get an error ('interrupted' / 'canceled') event later
CancelledAfter(q, n) == Min(n + (Len(q) - Len(CancelSpeech(q))), MaxCancelled)

\* utterances that are in the queue when a turn starts are marked
MarkOld(q) == [k \in 1..Len(q) |-> [q[k] EXCEPT !.old = TRUE]]

Utter(src) == [src |-> src, old |-> FALSE]

\* useTextToSpeech.speak: without window.speechSynthesis it returns a resolved
\* promise; otherwise setState('speaking') and speechSynthesis.speak(utterance)
SpeakQueue(supported, q, u) == IF supported THEN Append(q, u) ELSE q

SpeakState(supported, st) == IF supported THEN "speaking" ELSE st

\* ---- inbound frames ----------------------------------------------------------
\* data.text of the ai_response frames
AiTexts == {"ai", "ai2"}

\* data.analysis: absent, or [filler_words.length, clarity_score] (-1: not a number)
NoAnalysis == [has |-> FALSE, fillers |-> 0, score |-> -1]

Analyses ==
  {NoAnalysis} \cup [has : {TRUE}, fillers : 0..MaxFillers, score : -1..MaxScore]

\* the frames of a server that sends one text and no analysis
PlainTexts == {"ai"}

PlainAnalyses == {NoAnalysis}

\* mutant: the count of the last analysis replaces the total
AddFillers_Replace(cur, n) == n

\* setFillerCount(useAppStore.getState().fillerCount + data.analysis.filler_words.length)
AddFillers(cur, n) == cur + n

\* if (data.analysis.filler_words?.length) ...
FillerCountAfter(cur, a) ==
  IF a.has /\ a.fillers > 0 THEN AddFillers(cur, a.fillers) ELSE cur

\* if (typeof clarity_score === 'number' && !isNaN(clarity_score)) setWpm(clarity_score * 2)
WpmAfter(cur, a) == IF a.has /\ a.score >= 0 THEN a.score * 2 ELSE cur

\* mutant: a prompt update that waits for the playback
PromptAfter_Deferred(old, text) == old

\* setAiQuestion(text), before speak() is called
PromptAfter(old, text) == text

\* ---- audio recorder (useAudioRecorder) -------------------------------------
Capturing(rec) == rec \in {"recRef", "recLeak"}

\* stopRecording: with no active recorder it resolves null and touches nothing;
\* otherwise it stops the recorder and the tracks and calls resetState(),
\* which sets the store state to 'idle'.  `st` is the state set by the caller.
StateAfterStop(rec, st) == IF Capturing(rec) THEN "idle" ELSE st

RecorderAfterStop(rec) == IF Capturing(rec) THEN "inactive" ELSE rec

StreamAfterStop(rec, stream) ==
  IF Capturing(rec) /\ stream = "live" THEN "stopped" ELSE stream

\* the promises of stopRecording calls
FreeStop(sp) ==
  CHOOSE k \in StopIds : sp[k] = "none" /\ \A j \in StopIds : sp[j] = "none" => k <= j

\* onstop: audioChunksRef.current.length > 0 ? new Blob(...) : null
ClipOrNull(ch) == IF ch THEN "clip" ELSE "null"

\* mutant: a promise that can be resolved again after its timer resolved it
AlreadySettled_Never(st) == FALSE

\* resolve() on a promise the timer has resolved is ignored
AlreadySettled(st) == st = "timedout"

\* startRecording overwrites streamRef: a stream that is still live leaks
LeakedAfterAcquire(stream, was) == was \/ stream = "live"

\* ---- speech recognition (useSpeechRecognition) --------------------------------
\* isListeningRef.current: set by onstart, cleared by stopListening, onend, onerror;
\* the unmount cleanup calls stop() and leaves it set ("cleanupStop")
IsListeningRef(r) == r \in {"on", "cleanupStop"}

\* startListening: if (isListeningRef.current) return; setTranscript(''); start()
TranscriptAfterStart(r, t) == IF IsListeningRef(r) THEN t ELSE <<>>

\* recognition.start() throws on an engine that is already started (caught)
RecogAfterStart(r) == IF r = "off" THEN "starting" ELSE r

\* stopListening: if (!isListeningRef.current) return; stop(); isListeningRef.current = false
RecogAfterStop(r) == IF IsListeningRef(r) THEN "stopping" ELSE r

\* effect cleanup: recognitionRef.current.stop()
RecogAfterCleanup(r) ==
  IF r = "on" THEN "cleanupStop" ELSE IF r = "starting" THEN "stopping" ELSE r

\* final results one onresult event can carry
FinalResults == {<<"a">>, <<" ">>, <<"a", " ">>}

\* ---- outbound messages ---------------------------------------------------------
NoMsg == [type |-> "none", text |-> <<>>]
Dropped == [type |-> "dropped", text |-> <<>>]
EndSessionMsg == [type |-> "end_session", text |-> <<>>]

\* a step that handles no malformed frame, settles no stopRecording promise
\* and is no click on End
NoLog == [frame |-> "none", resolved |-> "none", end |-> "none"]

IsSpace(c) == c = " "

RECURSIVE TrimLeft(_)
TrimLeft(t) == IF t # <<>> /\ IsSpace(Head(t)) THEN TrimLeft(Tail(t)) ELSE t

RECURSIVE TrimRight(_)
TrimRight(t) ==
  IF t # <<>> /\ IsSpace(t[Len(t)]) THEN TrimRight(SubSeq(t, 1, Len(t) - 1)) ELSE t

\* mutant: a transcript sent as it is
Trim_Identity(t) == t

\* String.prototype.trim
Trim(t) == TrimRight(TrimLeft(t))

\* transcriptRef.current.trim() || 'I understand your point and would like to respond...'
SendText(t) == IF Trim(t) # <<>> THEN Trim(t) ELSE FALLBACK_TEXT

\* mutant: send without looking at readyState
SocketOpen_Always(socks, ref) == TRUE

\* wsRef.current?.readyState === WebSocket.OPEN
SocketOpen(socks, ref) == ref # 0 /\ socks[ref].rs = "OPEN"

\* ---- silence watchdog (useSilenceDetection) -------------------------------------
\* onSilenceRef = useRef(onSilence) keeps the handleSilenceDetected of the first
\* render for good (the useCallback that would update it is never called): the
\* isHolding that closure sees is the initial useState(false).
OnSilenceRefIsHolding == FALSE

\* mutant: handleSilenceDetected without its isHolding guard
SilenceGuard_Skip(h) == TRUE

\* handleSilenceDetected: if (!isHolding) return
SilenceGuard(h) == h

\* ---- initial state ---------------------------------------------------------
\* ---- camera store and setup() calls ---------------------------------------
FreeSetup == [pc |-> "free", cancelled |-> FALSE]
StoreInit == [isActive |-> FALSE, isLoading |-> FALSE, error |-> "none", nervousHabits |-> 0]

Init ==
  /\ page \in {"voice", "camera"}
  /\ phase = "init"
  /\ sockets = [i \in SockIds |-> FreeSock]
  /\ wsRef = 0
  /\ reconnectCount = 0
  /\ timers = [t \in TimerIds |-> 0]
  /\ timerRef = 0
  /\ wsStatus = "idle"
  /\ welcomePlayed = FALSE
  /\ depsChanged = FALSE
  /\ isHolding = FALSE
  /\ isRecording = FALSE
  /\ voiceInputMode = "push"
  /\ vstate = "idle"
  /\ micStream = "none"
  /\ recorder = "none"
  /\ leaked = FALSE
  /\ pendingAcq = 0
  /\ synth = <<>>
  /\ cancelled = 0
  /\ closeEvt = 0
  /\ delayLog = <<>>
  /\ sinceOpen = -1
  /\ welcomeSpoken = FALSE
  /\ cutAtStart = FALSE
  /\ transcript = <<>>
  /\ recog = "off"
  /\ stopsPending = [k \in StopIds |-> "none"]
  /\ recAnalyser = FALSE
  /\ analyserAttached = FALSE
  /\ rafLoop = FALSE
  /\ silentFor = -1
  /\ fired = FALSE
  /\ firedOnce = FALSE
  /\ sentMsg = NoMsg
  /\ stepLog = NoLog
  /\ aiQuestion = ""
  /\ metrics = [fillerCount |-> 0, wpm |-> 0]
  /\ analysisLog = [fillers |-> 0, score |-> -1]
  /\ speechSupported = TRUE
  /\ endReq = "none"
  /\ chunks = FALSE
  /\ loopStale = FALSE
  /\ loops = 0
  /\ reattached = FALSE
  /\ camEffect = "idle"
  /\ setups = [k \in SetupIds |-> FreeSetup]
  /\ modelsLoaded = FALSE
  /\ landmarkers = FALSE
  /\ camStream = "none"
  /\ camLeaked = FALSE
  /\ camRaf = FALSE
  /\ camLoops = 0
  /\ cameraStore = StoreInit
  /\ storeChanged = FALSE
  /\ cameraReady = FALSE
  /\ initError = FALSE
  /\ touchFrames = 0
  /\ camStopped = FALSE
  /\ route = "home"
  /\ input = <<>>
  /\ isAiTyping = FALSE
  /\ chatMessages = <<>>
  /\ chatPending = 0

Mounted == phase = "mounted"

\* codes the close event of wsRef.current can carry after close(...) is called on it
CloseChoices(S) ==
  IF wsRef # 0 /\ sockets[wsRef].rs = "OPEN" THEN S ELSE {ABNORMAL_CLOSURE}

\* ---- socket effect -----------------------------------------------------------
\* useEffect body: connectWs() on mount
Mount ==
  /\ phase = "init"
  /\ phase' = "mounted"
  /\ LET r == ConnectWs(sockets, wsRef, ABNORMAL_CLOSURE, FALSE)
     IN sockets' = r.socks /\ wsRef' = r.ref
  /\ closeEvt' = 0
  /\ stepLog' = NoLog
  /\ UNCHANGED <<aiQuestion, metrics, analysisLog, speechSupported, bodyVars, chatVars, endReq, chunks>>
  /\ sentMsg' = NoMsg
  /\ UNCHANGED voiceVars
  /\ UNCHANGED <<page, reconnectCount, timers, timerRef, wsStatus, welcomePlayed,
                 depsChanged, turnVars, vstate, micVars, speechVars, histVars>>

\* The effect re-runs when one of its dependencies changed: its cleanup
\* (clearTimeout, close(1000), welcomePlayedRef = false, stopSpeech()) and then
\* connectWs().  stopSpeech() writes the voice store, so the dependencies
\* (connectWs depends on the store object) have changed again afterwards.
EffectRerun ==
  /\ Mounted
  /\ depsChanged
  /\ CanConnect
  /\ \E c \in CloseChoices({NORMAL_CLOSURE, ABNORMAL_CLOSURE}) :
       LET cleaned == IF wsRef = 0 THEN sockets
                      ELSE [sockets EXCEPT ![wsRef] = CloseSocket(sockets[wsRef], c)]
           r == ConnectWs(cleaned, wsRef, c, FALSE)
       IN sockets' = r.socks /\ wsRef' = r.ref
  /\ timers' = ClearTimer(timers, timerRef)
  /\ welcomePlayed' = FALSE
  /\ synth' = CancelSpeech(synth)
  /\ cancelled' = CancelledAfter(synth, cancelled)
  /\ vstate' = "idle"
  /\ depsChanged' = TRUE
  /\ closeEvt' = 0
  /\ stepLog' = NoLog
  /\ UNCHANGED <<aiQuestion, metrics, analysisLog, speechSupported, bodyVars, chatVars, endReq, chunks>>
  /\ sentMsg' = NoMsg
  /\ UNCHANGED voiceVars
  /\ UNCHANGED <<page, phase, reconnectCount, timerRef, wsStatus, turnVars, micVars, histVars>>

\* What unmounting the view does: the socket effect's cleanup, the cleanup of
\* useTextToSpeech (cancel) and of useAudioRecorder (stop the tracks of streamRef).
Teardown(c) ==
  /\ phase' = "unmounted"
  /\ sockets' = IF wsRef = 0 THEN sockets
                ELSE [sockets EXCEPT ![wsRef] = CloseSocket(sockets[wsRef], c)]
  /\ timers' = ClearTimer(timers, timerRef)
  /\ welcomePlayed' = FALSE
  /\ synth' = CancelSpeech(synth)
  /\ cancelled' = CancelledAfter(synth, cancelled)
  /\ vstate' = "idle"
  /\ micStream' = IF micStream = "live" THEN "stopped" ELSE micStream
  /\ recorder' = IF recorder = "recRef" THEN "inactive" ELSE recorder
  /\ recog' = RecogAfterCleanup(recog)
  /\ UNCHANGED <<page, wsRef, reconnectCount, timerRef, wsStatus, depsChanged, turnVars,
                 leaked, pendingAcq, histVars, transcript, stopsPending, recAnalyser,
                 silenceVars>>

Unmount ==
  /\ Mounted
  /\ \E c \in CloseChoices({NORMAL_CLOSURE, ABNORMAL_CLOSURE}) : Teardown(c)
  /\ closeEvt' = 0
  /\ stepLog' = NoLog
  /\ UNCHANGED <<aiQuestion, metrics, analysisLog, speechSupported, bodyVars, chatVars, endReq, chunks>>
  /\ sentMsg' = NoMsg

\* ---- socket events -----------------------------------------------------------
OnOpen(i) ==
  /\ sockets[i].rs = "CONNECTING"
  /\ sockets' = [sockets EXCEPT ![i].rs = "OPEN"]
  /\ reconnectCount' = OpenHandler(reconnectCount).count
  /\ wsStatus' = OpenHandler(reconnectCount).status
  /\ depsChanged' = TRUE
  /\ delayLog' = <<>>
  /\ sinceOpen' = 0
  /\ closeEvt' = 0
  /\ stepLog' = NoLog
  /\ UNCHANGED <<aiQuestion, metrics, analysisLog, speechSupported, bodyVars, chatVars, endReq, chunks>>
  /\ sentMsg' = NoMsg
  /\ UNCHANGED voiceVars
  /\ UNCHANGED <<page, phase, wsRef, timers, timerRef, welcomePlayed, turnVars, vstate,
                 micVars, speechVars, welcomeSpoken>>

OnError(i) ==
  /\ Live(sockets[i])
  /\ depsChanged' = TRUE
  /\ closeEvt' = 0
  /\ stepLog' = NoLog
  /\ UNCHANGED <<aiQuestion, metrics, analysisLog, speechSupported, bodyVars, chatVars, endReq, chunks>>
  /\ sentMsg' = NoMsg
  /\ UNCHANGED voiceVars
  /\ UNCHANGED <<page, phase, connVars, welcomePlayed, turnVars, vstate, micVars,
                 speechVars, histVars>>

\* the codes a close event of socket s can carry
EventCodes(s) ==
  IF s.rs = "CLOSING" THEN {s.code}
  ELSE IF s.rs = "CONNECTING" THEN {ABNORMAL_CLOSURE}
  ELSE CloseCodes

\* the retry test of ws.onclose, with the counter compared inclusively
MayRetry_Inclusive(n) == n <= WS_MAX_RETRIES

\* ws.onclose: if (reconnectCountRef.current < WS_MAX_RETRIES)
MayRetry(n) == n < WS_MAX_RETRIES

OnClose(i, code) ==
  /\ sockets[i].rs \in {"CONNECTING", "OPEN", "CLOSING"}
  /\ code \in EventCodes(sockets[i])
  /\ sockets' = Gc([sockets EXCEPT ![i] = [@ EXCEPT !.rs = "CLOSED", !.code = code]], wsRef)
  /\ closeEvt' = code
  /\ stepLog' = NoLog
  /\ UNCHANGED <<aiQuestion, metrics, analysisLog, speechSupported, bodyVars, chatVars, endReq, chunks>>
  /\ sentMsg' = NoMsg
  /\ UNCHANGED voiceVars
  /\ IF IsNormalClose(code)
     THEN UNCHANGED <<reconnectCount, timers, timerRef, wsStatus, depsChanged, histVars>>
     ELSE IF MayRetry(reconnectCount)
     THEN /\ CanSchedule
          /\ LET t == FreshTimer(timers)
                 delay == ReconnectDelay(reconnectCount)
             IN /\ timers' = [timers EXCEPT ![t] = delay]
                /\ timerRef' = t
                /\ delayLog' = IF Len(delayLog) <= WS_MAX_RETRIES
                               THEN Append(delayLog, delay) ELSE delayLog
          /\ wsStatus' = "reconnecting"
          /\ reconnectCount' = reconnectCount + 1
          /\ sinceOpen' = IF sinceOpen < 0 THEN sinceOpen
                          ELSE Min(sinceOpen + 1, WS_MAX_RETRIES + 1)
          /\ UNCHANGED <<depsChanged, welcomeSpoken>>
     ELSE /\ wsStatus' = "failed"
          /\ depsChanged' = TRUE
          /\ sinceOpen' = IF sinceOpen < 0 THEN sinceOpen
                          ELSE Min(sinceOpen + 1, WS_MAX_RETRIES + 1)
          /\ UNCHANGED <<reconnectCount, timers, timerRef, delayLog, welcomeSpoken>>
  /\ UNCHANGED <<page, phase, wsRef, welcomePlayed, turnVars, vstate, micVars, speechVars>>

\* setTimeout(connectWs, delay) fires
TimerFire(t) ==
  /\ timers[t] > 0
  /\ CanConnect
  /\ timers' = [timers EXCEPT ![t] = 0]
  /\ \E c \in CloseChoices(CloseCodes) :
       LET r == ConnectWs(sockets, wsRef, c, FALSE)
       IN sockets' = r.socks /\ wsRef' = r.ref
  /\ closeEvt' = 0
  /\ stepLog' = NoLog
  /\ UNCHANGED <<aiQuestion, metrics, analysisLog, speechSupported, bodyVars, chatVars, endReq, chunks>>
  /\ sentMsg' = NoMsg
  /\ UNCHANGED voiceVars
  /\ UNCHANGED <<page, phase, reconnectCount, timerRef, wsStatus, welcomePlayed, depsChanged,
                 turnVars, vstate, micVars, speechVars, histVars>>

\* the Retry button, rendered while wsStatus === 'failed': onClick={connectWs}
ManualRetry ==
  /\ Mounted
  /\ page = "voice"
  /\ wsStatus = "failed"
  /\ CanConnect
  /\ \E c \in CloseChoices(CloseCodes) :
       LET r == ConnectWs(sockets, wsRef, c, TRUE)
       IN sockets' = r.socks /\ wsRef' = r.ref
  /\ closeEvt' = 0
  /\ stepLog' = NoLog
  /\ UNCHANGED <<aiQuestion, metrics, analysisLog, speechSupported, bodyVars, chatVars, endReq, chunks>>
  /\ sentMsg' = NoMsg
  /\ UNCHANGED voiceVars
  /\ UNCHANGED <<page, phase, reconnectCount, timers, timerRef, wsStatus, welcomePlayed,
                 depsChanged, turnVars, vstate, micVars, speechVars, histVars>>

\* ---- inbound messages (ws.onmessage) -----------------------------------------
\* frames that JSON.parse rejects, named by the handler branch their text aims at
BadFrames == {"welcome", "ai_response", "session_ended"}

\* mutant: a parser that accepts every frame
JsonParses_Always(f) == TRUE

\* try { data = JSON.parse(event.data) } catch (e) { console.error(...); return; }
JsonParses(f) == f \notin BadFrames

\* data.type === 'welcome': setAiQuestion(msg); the first one since the effect ran is spoken
HandleWelcome ==
  /\ aiQuestion' = PromptAfter(aiQuestion, "welcome")
  /\ UNCHANGED <<metrics, analysisLog, speechSupported, bodyVars, chatVars, endReq, chunks>>
  /\ closeEvt' = 0
  /\ sentMsg' = NoMsg
  /\ UNCHANGED voiceVars
  /\ IF ~welcomePlayed
     THEN /\ Len(synth) < MaxUtter
          /\ welcomePlayed' = TRUE
          /\ synth' = SpeakQueue(speechSupported, synth, Utter("welcome"))
          /\ vstate' = SpeakState(speechSupported, vstate)
          /\ depsChanged' = (depsChanged \/ speechSupported)
          /\ welcomeSpoken' = (welcomeSpoken \/ (Mounted /\ speechSupported))
     ELSE UNCHANGED <<welcomePlayed, synth, vstate, depsChanged, welcomeSpoken>>
  /\ UNCHANGED <<page, phase, connVars, turnVars, micVars, cancelled, delayLog, sinceOpen>>

OnWelcome(i) ==
  /\ sockets[i].rs = "OPEN"
  /\ HandleWelcome
  /\ stepLog' = [NoLog EXCEPT !.frame = "welcome"]

\* data.type === 'ai_response': setAiQuestion(data.text); with data.analysis
\* setFillerCount / setWpm; voiceStore.setState('processing'); await
\* speak(data.text) -> setState('speaking')
HandleAiResponse(text, a) ==
  /\ Len(synth) < MaxUtter
  /\ metrics.fillerCount + a.fillers <= MaxFillerCount
  /\ synth' = SpeakQueue(speechSupported, synth, Utter(text))
  /\ vstate' = SpeakState(speechSupported, "processing")
  /\ depsChanged' = TRUE
  /\ aiQuestion' = PromptAfter(aiQuestion, text)
  /\ metrics' = [fillerCount |-> FillerCountAfter(metrics.fillerCount, a),
                 wpm |-> WpmAfter(metrics.wpm, a)]
  /\ analysisLog' = [fillers |-> analysisLog.fillers + (IF a.has THEN a.fillers ELSE 0),
                     score |-> IF a.has /\ a.score >= 0 THEN a.score ELSE analysisLog.score]
  /\ UNCHANGED <<chunks, speechSupported, bodyVars, chatVars, endReq>>
  /\ closeEvt' = 0
  /\ sentMsg' = NoMsg
  /\ UNCHANGED voiceVars
  /\ UNCHANGED <<page, phase, connVars, welcomePlayed, turnVars, micVars, cancelled, histVars>>

OnAiResponse(i, text, a) ==
  /\ sockets[i].rs = "OPEN"
  /\ HandleAiResponse(text, a)
  /\ stepLog' = [NoLog EXCEPT !.frame = text]

\* data.type === 'session_ended': navigate(`/feedback/...`), the router unmounts the view
HandleSessionEnded ==
  /\ Mounted
  /\ \E c \in CloseChoices({NORMAL_CLOSURE, ABNORMAL_CLOSURE}) : Teardown(c)
  /\ closeEvt' = 0
  /\ UNCHANGED <<aiQuestion, metrics, analysisLog, speechSupported, bodyVars, chatVars, endReq, chunks>>
  /\ sentMsg' = NoMsg

OnSessionEnded(i) ==
  /\ sockets[i].rs = "OPEN"
  /\ HandleSessionEnded
  /\ stepLog' = NoLog

\* the handler returns from its catch block
Discard ==
  /\ closeEvt' = 0
  /\ UNCHANGED <<aiQuestion, metrics, analysisLog, speechSupported, bodyVars, chatVars, endReq, chunks>>
  /\ sentMsg' = NoMsg
  /\ UNCHANGED voiceVars
  /\ UNCHANGED <<page, phase, connVars, welcomePlayed, depsChanged, turnVars, vstate,
                 micVars, speechVars, histVars>>

\* ws.onmessage with a frame f that is not valid JSON: nothing of it is
\* dispatched unless the parser lets it through
OnMalformed(i, f) ==
  /\ sockets[i].rs = "OPEN"
  /\ stepLog' = [NoLog EXCEPT !.frame = "bad"]
  /\ IF JsonParses(f)
     THEN CASE f = "welcome" -> HandleWelcome
            [] f = "ai_response" ->
                 \E text \in AiTexts, a \in Analyses : HandleAiResponse(text, a)
            [] f = "session_ended" -> HandleSessionEnded
     ELSE Discard

\* the page is loaded by a browser without window.speechSynthesis
SpeechUnsupported ==
  /\ phase = "init"
  /\ speechSupported
  /\ speechSupported' = FALSE
  /\ closeEvt' = 0
  /\ sentMsg' = NoMsg
  /\ stepLog' = NoLog
  /\ UNCHANGED <<aiQuestion, metrics, analysisLog, endReq, chunks, bodyVars, chatVars>>
  /\ UNCHANGED voiceVars
  /\ UNCHANGED <<page, phase, connVars, welcomePlayed, depsChanged, turnVars, vstate,
                 micVars, speechVars, histVars>>

\* ---- speech synthesis events ---------------------------------------------------
\* utterance.onend, or onerror of the playing utterance
UtterEnd ==
  /\ Len(synth) > 0
  /\ synth' = Tail(synth)
  /\ vstate' = "idle"
  /\ depsChanged' = TRUE
  /\ closeEvt' = 0
  /\ stepLog' = NoLog
  /\ UNCHANGED <<aiQuestion, metrics, analysisLog, speechSupported, bodyVars, chatVars, endReq, chunks>>
  /\ sentMsg' = NoMsg
  /\ UNCHANGED voiceVars
  /\ UNCHANGED <<page, phase, connVars, welcomePlayed, turnVars, micVars, cancelled, histVars>>

\* utterance.onerror ('interrupted' / 'canceled') of a cancelled utterance
CancelEvt ==
  /\ cancelled > 0
  /\ cancelled' = cancelled - 1
  /\ vstate' = "idle"
  /\ depsChanged' = TRUE
  /\ closeEvt' = 0
  /\ stepLog' = NoLog
  /\ UNCHANGED <<aiQuestion, metrics, analysisLog, speechSupported, bodyVars, chatVars, endReq, chunks>>
  /\ sentMsg' = NoMsg
  /\ UNCHANGED voiceVars
  /\ UNCHANGED <<page, phase, connVars, welcomePlayed, turnVars, micVars, synth, histVars>>

\* ---- turn handlers -----------------------------------------------------------
\* The part of a turn-start up to the await inside startRecording:
\* stopSpeech(); voiceStore.setState('listening'); getUserMedia requested.
TurnStart ==
  /\ pendingAcq < MaxPending
  /\ synth' = CancelSpeech(MarkOld(synth))
  /\ cutAtStart' = (synth # <<>>)
  /\ cancelled' = CancelledAfter(synth, cancelled)
  /\ vstate' = "listening"
  /\ pendingAcq' = pendingAcq + 1
  /\ depsChanged' = TRUE
  /\ sentMsg' = NoMsg
  /\ stepLog' = NoLog
  /\ UNCHANGED <<micStream, recorder, leaked, voiceVars>>

\* The code after `await stopRecording()`: stopSpeechRecognition(); sendTranscript()
\* (CameraSession.handleHoldEnd: the same, inline).
Submit ==
  /\ recog' = RecogAfterStop(recog)
  /\ IF SocketOpen(sockets, wsRef)
     THEN /\ sentMsg' = [type |-> "user_audio_transcript", text |-> SendText(transcript)]
          /\ transcript' = <<>>
     ELSE /\ sentMsg' = Dropped
          /\ transcript' = transcript

\* voiceStore.setState('processing'); stopRecording() runs synchronously to its
\* end.  With no active recorder its promise is already resolved and the code
\* after the await runs in the same task; otherwise that code waits for the
\* recorder's stop event.
StopCapture ==
  /\ vstate' = StateAfterStop(recorder, "processing")
  /\ recorder' = RecorderAfterStop(recorder)
  /\ micStream' = StreamAfterStop(recorder, micStream)
  /\ depsChanged' = TRUE
  /\ IF Capturing(recorder)
     THEN /\ \E k \in StopIds : stopsPending[k] = "none"
          /\ stopsPending' = [stopsPending EXCEPT ![FreeStop(stopsPending)] = "pending"]
          /\ sentMsg' = NoMsg
          /\ stepLog' = NoLog
          /\ UNCHANGED recogVars
     ELSE /\ Submit
          /\ stepLog' = [NoLog EXCEPT !.resolved = "null"]
          /\ UNCHANGED stopsPending
  /\ UNCHANGED <<leaked, pendingAcq, speechVars, cutAtStart, recAnalyser>>

\* useSilenceDetection stop(), and attachAnalyser up to its first requestAnimationFrame
\* mutant: stop() that clears rafRef without cancelling the frame
CancelLoop_Keep(n, held) == n

\* stop: if (rafRef.current) { cancelAnimationFrame(rafRef.current); rafRef.current = null; }
CancelLoop(n, held) == IF held THEN n - 1 ELSE n

SilenceReset(loop) ==
  /\ loops' = CancelLoop(loops, rafLoop) + (IF loop THEN 1 ELSE 0)
  /\ reattached' = (loop /\ rafLoop)
  /\ rafLoop' = loop
  /\ silentFor' = -1
  /\ fired' = FALSE
  /\ firedOnce' = FALSE
  /\ loopStale' = FALSE

\* detachSilence(); analyserAttachedRef.current = false  (VoiceSession only)
DetachSilence ==
  IF page = "voice"
  THEN analyserAttached' = FALSE /\ SilenceReset(FALSE)
  ELSE UNCHANGED silenceVars

\* The part of a turn-stop up to the code after `await stopRecording()`.
TurnStop == StopCapture /\ DetachSilence

HoldMode == page = "camera" \/ voiceInputMode = "hold"

\* onPointerDown
HandleHoldStart ==
  /\ Mounted
  /\ HoldMode
  /\ isHolding' = TRUE
  /\ TurnStart
  /\ closeEvt' = 0
  /\ UNCHANGED <<aiQuestion, metrics, analysisLog, speechSupported, bodyVars, chatVars, endReq, chunks>>
  /\ UNCHANGED <<page, phase, connVars, welcomePlayed, isRecording, voiceInputMode, histVars>>

\* onPointerUp / onPointerLeave: if (!isHolding) return
HandleHoldEnd ==
  /\ Mounted
  /\ HoldMode
  /\ isHolding
  /\ isHolding' = FALSE
  /\ TurnStop
  /\ closeEvt' = 0
  /\ UNCHANGED <<aiQuestion, metrics, analysisLog, speechSupported, bodyVars, chatVars, endReq, chunks>>
  /\ UNCHANGED <<page, phase, connVars, welcomePlayed, isRecording, voiceInputMode, histVars>>

\* onClick of the tap-to-speak button (VoiceSession, mode 'push')
HandlePushToggle ==
  /\ Mounted
  /\ page = "voice"
  /\ voiceInputMode = "push"
  /\ IF ~isRecording
     THEN /\ isRecording' = TRUE
          /\ TurnStart
          /\ closeEvt' = 0
          /\ UNCHANGED <<aiQuestion, metrics, analysisLog, speechSupported, bodyVars, chatVars, endReq, chunks>>
     ELSE /\ isRecording' = FALSE
          /\ TurnStop
          /\ closeEvt' = 0
          /\ UNCHANGED <<aiQuestion, metrics, analysisLog, speechSupported, bodyVars, chatVars, endReq, chunks>>
  /\ UNCHANGED <<page, phase, connVars, welcomePlayed, isHolding, voiceInputMode, histVars>>

\* mode buttons: if (isRecording || isHolding) return; setVoiceInputMode(m.key)
SetVoiceInputMode(m) ==
  /\ Mounted
  /\ page = "voice"
  /\ ~(isRecording \/ isHolding)
  /\ m # voiceInputMode
  /\ voiceInputMode' = m
  /\ closeEvt' = 0
  /\ stepLog' = NoLog
  /\ UNCHANGED <<aiQuestion, metrics, analysisLog, speechSupported, bodyVars, chatVars, endReq, chunks>>
  /\ sentMsg' = NoMsg
  /\ UNCHANGED voiceVars
  /\ UNCHANGED <<page, phase, connVars, welcomePlayed, depsChanged, isHolding, isRecording,
                 cutAtStart, vstate, micVars, speechVars, histVars>>

\* startRecording resumes after getUserMedia
AcquireDone(o) ==
  /\ pendingAcq > 0
  /\ pendingAcq' = pendingAcq - 1
  /\ depsChanged' = TRUE
  /\ closeEvt' = 0
  /\ stepLog' = NoLog
  /\ chunks' = (chunks /\ o # "ok")
  /\ UNCHANGED <<aiQuestion, metrics, analysisLog, speechSupported, bodyVars, chatVars, endReq>>
  /\ sentMsg' = NoMsg
  /\ CASE o = "ok" ->
            /\ leaked' = LeakedAfterAcquire(micStream, leaked)
            /\ micStream' = "live"
            /\ recorder' = "recRef"
            /\ vstate' = "listening"
       [] o = "denied" ->
            /\ vstate' = "idle"
            /\ UNCHANGED <<leaked, micStream, recorder>>
       [] o = "ctxfail" ->
            /\ leaked' = LeakedAfterAcquire(micStream, leaked)
            /\ micStream' = "live"
            /\ recorder' = IF recorder = "recRef" THEN "recLeak" ELSE recorder
            /\ vstate' = "idle"
  \* the code after `await startRecording()`: startSpeech(), and in VoiceSession
  \* if (analyserRef.current && !analyserAttachedRef.current) attachAnalyser(...)
  /\ recog' = RecogAfterStart(recog)
  /\ transcript' = TranscriptAfterStart(recog, transcript)
  /\ recAnalyser' = (recAnalyser \/ o = "ok")
  /\ IF page = "voice" /\ recAnalyser' /\ ~analyserAttached
     THEN analyserAttached' = TRUE /\ SilenceReset(TRUE)
     ELSE /\ loopStale' = (loopStale \/ (rafLoop /\ o = "ok"))
          /\ UNCHANGED <<analyserAttached, rafLoop, silentFor, fired, firedOnce, loops, reattached>>
  /\ UNCHANGED <<page, phase, connVars, welcomePlayed, turnVars, speechVars, histVars,
                 stopsPending>>

\* mediaRecorder.onstop of promise k: clearTimeout, resolve(blob or null); the code
\* after `await stopRecording()` runs unless the timer has resolved the promise
RecorderStopped(k) ==
  /\ stopsPending[k] \in {"pending", "timedout"}
  /\ stopsPending' = [stopsPending EXCEPT ![k] = "none"]
  /\ IF AlreadySettled(stopsPending[k])
     THEN /\ stepLog' = [NoLog EXCEPT !.resolved = "late"]
          /\ sentMsg' = NoMsg
          /\ UNCHANGED recogVars
     ELSE /\ stepLog' = [NoLog EXCEPT !.resolved = ClipOrNull(chunks)]
          /\ Submit
  /\ closeEvt' = 0
  /\ UNCHANGED <<aiQuestion, metrics, analysisLog, speechSupported, bodyVars, chatVars, endReq, chunks>>
  /\ UNCHANGED <<page, phase, connVars, welcomePlayed, depsChanged, turnVars, vstate,
                 micVars, speechVars, histVars, recAnalyser, silenceVars>>

\* setTimeout(() => resolve(null), 5000) of promise k fires before the stop event
StopTimeout(k) ==
  /\ stopsPending[k] = "pending"
  /\ stopsPending' = [stopsPending EXCEPT ![k] = "timedout"]
  /\ stepLog' = [NoLog EXCEPT !.resolved = "null"]
  /\ Submit
  /\ closeEvt' = 0
  /\ UNCHANGED <<aiQuestion, metrics, analysisLog, speechSupported, bodyVars, chatVars, endReq, chunks>>
  /\ UNCHANGED <<page, phase, connVars, welcomePlayed, depsChanged, turnVars, vstate,
                 micVars, speechVars, histVars, recAnalyser, silenceVars>>

\* mediaRecorder.ondataavailable with event.data.size > 0
DataAvailable ==
  /\ Capturing(recorder) \/ \E k \in StopIds : stopsPending[k] # "none"
  /\ ~chunks
  /\ chunks' = TRUE
  /\ closeEvt' = 0
  /\ sentMsg' = NoMsg
  /\ stepLog' = NoLog
  /\ UNCHANGED <<aiQuestion, metrics, analysisLog, speechSupported, bodyVars, chatVars, endReq>>
  /\ UNCHANGED <<page, phase, connVars, welcomePlayed, depsChanged, turnVars, vstate,
                 micVars, speechVars, histVars, voiceVars>>

\* recognition.onstart
RecogStarted ==
  /\ recog = "starting"
  /\ recog' = "on"
  /\ closeEvt' = 0
  /\ stepLog' = NoLog
  /\ UNCHANGED <<aiQuestion, metrics, analysisLog, speechSupported, bodyVars, chatVars, endReq, chunks>>
  /\ sentMsg' = NoMsg
  /\ UNCHANGED <<page, phase, connVars, welcomePlayed, depsChanged, turnVars, vstate,
                 micVars, speechVars, histVars, transcript, stopsPending, recAnalyser,
                 silenceVars>>

\* recognition.onend (after stop(), or the engine ending by itself or on an error)
RecogEnded ==
  /\ recog # "off"
  /\ recog' = "off"
  /\ closeEvt' = 0
  /\ stepLog' = NoLog
  /\ UNCHANGED <<aiQuestion, metrics, analysisLog, speechSupported, bodyVars, chatVars, endReq, chunks>>
  /\ sentMsg' = NoMsg
  /\ UNCHANGED <<page, phase, connVars, welcomePlayed, depsChanged, turnVars, vstate,
                 micVars, speechVars, histVars, transcript, stopsPending, recAnalyser,
                 silenceVars>>

\* recognition.onresult with a final result: setTranscript(prev => prev + ' ' + final)
OnResult(final) ==
  /\ recog \in {"on", "stopping", "cleanupStop"}
  /\ Len(transcript) + 1 + Len(final) <= MaxLen
  /\ transcript' = transcript \o <<" ">> \o final
  /\ closeEvt' = 0
  /\ stepLog' = NoLog
  /\ UNCHANGED <<aiQuestion, metrics, analysisLog, speechSupported, bodyVars, chatVars, endReq, chunks>>
  /\ sentMsg' = NoMsg
  /\ UNCHANGED <<page, phase, connVars, welcomePlayed, depsChanged, turnVars, vstate,
                 micVars, speechVars, histVars, recog, stopsPending, recAnalyser,
                 silenceVars>>

\* what a call of the watchdog hook from outside the turn handlers leaves alone
HookCall ==
  /\ Mounted
  /\ page = "voice"
  /\ closeEvt' = 0
  /\ sentMsg' = NoMsg
  /\ stepLog' = NoLog
  /\ UNCHANGED <<aiQuestion, metrics, analysisLog, speechSupported, bodyVars, chatVars, endReq, chunks>>
  /\ UNCHANGED <<page, phase, connVars, welcomePlayed, depsChanged, turnVars, vstate,
                 micVars, speechVars, histVars, transcript, recog, stopsPending,
                 recAnalyser, analyserAttached>>

\* useSilenceDetection.attachAnalyser(analyser): stop(), then the first requestAnimationFrame
AttachAnalyser ==
  /\ HookCall
  /\ recAnalyser
  /\ SilenceReset(TRUE)

\* useSilenceDetection.detach (= stop)
Detach ==
  /\ HookCall
  /\ SilenceReset(FALSE)

\* what a frame of the silence loop leaves alone when it does not call onSilence
NoCallback ==
  /\ sentMsg' = NoMsg
  /\ stepLog' = NoLog
  /\ UNCHANGED <<isHolding, vstate, recorder, micStream, depsChanged, stopsPending,
                 recogVars, leaked, pendingAcq, speechVars, cutAtStart, recAnalyser>>

\* onSilenceRef.current(): handleSilenceDetected
OnSilence ==
  IF SilenceGuard(OnSilenceRefIsHolding)
  THEN isHolding' = FALSE /\ StopCapture
  ELSE NoCallback

\* one frame of useSilenceDetection's loop, FrameGapMs after the previous one
Frame(level) ==
  /\ rafLoop
  /\ closeEvt' = 0
  /\ UNCHANGED <<aiQuestion, metrics, analysisLog, speechSupported, bodyVars, chatVars, endReq, chunks>>
  /\ IF level < SILENCE_THRESHOLD
     THEN IF silentFor = -1
          THEN /\ silentFor' = 0
               /\ UNCHANGED <<fired, firedOnce>>
               /\ NoCallback
          ELSE LET age == Min(silentFor + FrameGapMs, SILENCE_DURATION_MS)
               IN /\ silentFor' = age
                  /\ IF ~fired /\ age >= SILENCE_DURATION_MS
                     THEN fired' = TRUE /\ firedOnce' = TRUE /\ OnSilence
                     ELSE UNCHANGED <<fired, firedOnce>> /\ NoCallback
     ELSE /\ silentFor' = -1
          /\ fired' = FALSE
          /\ UNCHANGED firedOnce
          /\ NoCallback
  /\ UNCHANGED <<page, phase, connVars, welcomePlayed, isRecording, voiceInputMode,
                 histVars, analyserAttached, rafLoop, loopStale, loops, reattached>>

\* VoiceSession.handleEnd: if (isHolding || isRecording) window.confirm(...);
\* CameraSession.handleEnd has no such test
AsksConfirm == page = "voice" /\ (isHolding \/ isRecording)

\* the End button.  A refused confirmation returns; otherwise end_session goes
\* out if the socket is open and the REST call endSession(...) is issued; the
\* navigation that follows `await endSession(...)` is the Unmount step
HandleEnd(confirmed) ==
  /\ Mounted
  /\ ~AsksConfirm => confirmed
  /\ IF AsksConfirm /\ ~confirmed
     THEN /\ stepLog' = [NoLog EXCEPT !.end = "refused"]
          /\ sentMsg' = NoMsg
          /\ UNCHANGED endReq
     ELSE /\ stepLog' = [NoLog EXCEPT !.end = IF AsksConfirm THEN "confirmed" ELSE "direct"]
          /\ sentMsg' = IF SocketOpen(sockets, wsRef) THEN EndSessionMsg ELSE NoMsg
          /\ endReq' = "pending"
  /\ closeEvt' = 0
  /\ UNCHANGED <<aiQuestion, metrics, analysisLog, speechSupported, bodyVars, chatVars, chunks>>
  /\ UNCHANGED <<page, phase, connVars, welcomePlayed, depsChanged, turnVars, vstate,
                 micVars, speechVars, histVars, voiceVars>>

\* how `await endSession(...)` can end: resolved, rejected, rejected by the timeout
RestOutcomes == {"ok", "error", "timeout"}

\* mutant: handleEnd without its catch block
NavigatesAfter_OkOnly(outcome) == outcome = "ok"

\* try { ...; await endSession(id); navigate(feedback) } catch { navigate(feedback) }
NavigatesAfter(outcome) == TRUE

\* the code after `await endSession(...)`; navigate() makes the router unmount the view
EndSessionDone(outcome) ==
  /\ endReq = "pending"
  /\ endReq' = "none"
  /\ IF Mounted /\ NavigatesAfter(outcome)
     THEN \E c \in CloseChoices({NORMAL_CLOSURE, ABNORMAL_CLOSURE}) : Teardown(c)
     ELSE UNCHANGED <<page, phase, connVars, welcomePlayed, depsChanged, turnVars, vstate,
                      micVars, speechVars, histVars, voiceVars>>
  /\ stepLog' = [NoLog EXCEPT !.end = outcome]
  /\ sentMsg' = NoMsg
  /\ closeEvt' = 0
  /\ UNCHANGED <<aiQuestion, metrics, analysisLog, speechSupported, bodyVars, chatVars, chunks>>

\* the socket protocol: connect, events of the sockets, reconnect timers
NextConn ==
  \/ Mount
  \/ EffectRerun
  \/ Unmount
  \/ \E i \in SockIds : OnOpen(i)
  \/ \E i \in SockIds : OnError(i)
  \/ \E i \in SockIds, code \in CloseCodes : OnClose(i, code)
  \/ \E t \in TimerIds : TimerFire(t)
  \/ ManualRetry

\* the turn protocol over sockets that open and close normally
NextTurn ==
  \/ Mount
  \/ EffectRerun
  \/ Unmount
  \/ \E i \in SockIds : OnOpen(i)
  \/ \E i \in SockIds : OnClose(i, NORMAL_CLOSURE)
  \/ \E i \in SockIds : OnWelcome(i)
  \/ \E i \in SockIds, text \in PlainTexts, a \in PlainAnalyses : OnAiResponse(i, text, a)
  \/ \E i \in SockIds : OnSessionEnded(i)
  \/ UtterEnd
  \/ CancelEvt
  \/ HandleHoldStart
  \/ HandleHoldEnd
  \/ HandlePushToggle
  \/ \E m \in {"push", "hold"} : SetVoiceInputMode(m)
  \/ \E o \in StartOutcomes : AcquireDone(o)
  \/ \E k \in StopIds : RecorderStopped(k)

\* turns against playback, with one socket and no re-run of the socket effect
NextSpeech ==
  \/ Mount
  \/ Unmount
  \/ \E i \in SockIds : OnOpen(i)
  \/ \E i \in SockIds : OnClose(i, NORMAL_CLOSURE)
  \/ \E i \in SockIds : OnWelcome(i)
  \/ \E i \in SockIds, text \in PlainTexts, a \in PlainAnalyses : OnAiResponse(i, text, a)
  \/ \E i \in SockIds, f \in BadFrames : OnMalformed(i, f)
  \/ UtterEnd
  \/ CancelEvt
  \/ HandleHoldStart
  \/ HandleHoldEnd
  \/ HandlePushToggle
  \/ \E m \in {"push", "hold"} : SetVoiceInputMode(m)
  \/ \E o \in StartOutcomes : AcquireDone(o)
  \/ \E k \in StopIds : RecorderStopped(k)

\* the user's turn: gestures, recorder, recognition, silence loop, outbound messages
NextVoice ==
  \/ Mount
  \/ Unmount
  \/ \E i \in SockIds : OnOpen(i)
  \/ \E i \in SockIds : OnClose(i, NORMAL_CLOSURE)
  \/ HandleHoldStart
  \/ HandleHoldEnd
  \/ HandlePushToggle
  \/ \E m \in {"push", "hold"} : SetVoiceInputMode(m)
  \/ \E o \in StartOutcomes : AcquireDone(o)
  \/ \E k \in StopIds : RecorderStopped(k)
  \/ RecogStarted
  \/ RecogEnded
  \/ \E final \in FinalResults : OnResult(final)
  \/ \E level \in Levels : Frame(level)

\* capture stops: the recorder's data and stop events against the 5000 ms timer
NextStop ==
  \/ Mount
  \/ \E i \in SockIds : OnOpen(i)
  \/ HandleHoldStart
  \/ HandleHoldEnd
  \/ HandlePushToggle
  \/ \E o \in StartOutcomes : AcquireDone(o)
  \/ DataAvailable
  \/ \E k \in StopIds : RecorderStopped(k)
  \/ \E k \in StopIds : StopTimeout(k)

\* the silence watchdog under attach and detach calls in any order, beside
\* those of the turn handlers
NextWatch ==
  \/ Mount
  \/ HandleHoldStart
  \/ HandleHoldEnd
  \/ HandlePushToggle
  \/ \E m \in {"push", "hold"} : SetVoiceInputMode(m)
  \/ \E o \in StartOutcomes : AcquireDone(o)
  \/ \E k \in StopIds : RecorderStopped(k)
  \/ \E level \in Levels : Frame(level)
  \/ AttachAnalyser
  \/ Detach

\* the frames of one socket, with analyses and texts that differ, and playback
NextInbound ==
  \/ Mount
  \/ SpeechUnsupported
  \/ \E i \in SockIds : OnOpen(i)
  \/ \E i \in SockIds : OnWelcome(i)
  \/ \E i \in SockIds, text \in AiTexts, a \in Analyses : OnAiResponse(i, text, a)
  \/ UtterEnd

\* the End button during turns, and the REST call it makes
NextEnd ==
  \/ Mount
  \/ \E i \in SockIds : OnOpen(i)
  \/ \E i \in SockIds : OnClose(i, NORMAL_CLOSURE)
  \/ HandleHoldStart
  \/ HandleHoldEnd
  \/ HandlePushToggle
  \/ \E o \in StartOutcomes : AcquireDone(o)
  \/ \E k \in StopIds : RecorderStopped(k)
  \/ \E confirmed \in BOOLEAN : HandleEnd(confirmed)
  \/ \E outcome \in RestOutcomes : EndSessionDone(outcome)

\* turns over a socket that fails until the retries are exhausted
NextFail ==
  \/ Mount
  \/ \E i \in SockIds : OnOpen(i)
  \/ \E i \in SockIds, code \in CloseCodes : OnClose(i, code)
  \/ \E t \in TimerIds : TimerFire(t)
  \/ HandleHoldStart
  \/ HandleHoldEnd
  \/ HandlePushToggle
  \/ \E o \in StartOutcomes : AcquireDone(o)
  \/ \E k \in StopIds : RecorderStopped(k)

\* ---- CameraSession: the camera effect and useBodyLanguage -----------------
HandsSeen == {"none", "seen", "touching"}

\* the keys of the metrics object one analysed frame hands to updateMetrics
FrameMetrics(hands) ==
  CASE hands = "none" -> {}
    [] hands = "seen" -> {"gestureCount"}
    [] hands = "touching" -> {"gestureCount", "nervousHabit"}

\* updateMetrics: the store's count after a frame with these keys
NervousAfter(cur, keys) == IF "nervousHabits" \in keys THEN cur + 1 ELSE cur

\* the effect's cleanup sets `cancelled` of the setup() it started; stop()
\* clears the video's srcObject, which aborts a pending play()
CancelAll(ss) ==
  [k \in SetupIds |->
     IF ss[k].pc = "free" THEN ss[k]
     ELSE [pc |-> IF ss[k].pc = "play" THEN "aborted" ELSE ss[k].pc, cancelled |-> TRUE]]

FreeSetupIn(ss, k) ==
  /\ ss[k].pc = "free"
  /\ \A j \in SetupIds : ss[j].pc = "free" => k <= j

\* stop(), then cameraStore.reset() where the store is not written in the action
EffectCleanup ==
  /\ camLoops' = IF camRaf THEN camLoops - 1 ELSE camLoops
  /\ camRaf' = FALSE
  /\ camStream' = "none"
  /\ landmarkers' = FALSE
  /\ camStopped' = TRUE
  /\ touchFrames' = 0
  /\ UNCHANGED <<modelsLoaded, camLeaked, cameraReady, initError>>

\* the camera effect runs at mount: setup() calls initialize()
CameraMount ==
  /\ page = "camera"
  /\ camEffect = "idle"
  /\ camEffect' = "active"
  /\ \E k \in SetupIds :
       /\ FreeSetupIn(setups, k)
       /\ setups' = [setups EXCEPT ![k] = [pc |-> "init", cancelled |-> FALSE]]
  /\ cameraStore' = [cameraStore EXCEPT !.isLoading = TRUE, !.error = "none"]
  /\ storeChanged' = TRUE
  /\ UNCHANGED <<modelsLoaded, landmarkers, camStream, camLeaked, camRaf, camLoops,
                 cameraReady, initError, touchFrames, camStopped>>
  /\ UNCHANGED <<sessionVars, chatVars>>

\* the page re-renders with a new store object: the effect is cleaned up and run again
CameraRerun ==
  /\ camEffect = "active"
  /\ storeChanged
  /\ \E k \in SetupIds :
       /\ FreeSetupIn(CancelAll(setups), k)
       /\ setups' = [CancelAll(setups) EXCEPT ![k] = [pc |-> "init", cancelled |-> FALSE]]
  /\ EffectCleanup
  /\ cameraStore' = [StoreInit EXCEPT !.isLoading = TRUE]
  /\ storeChanged' = TRUE
  /\ UNCHANGED camEffect
  /\ UNCHANGED <<sessionVars, chatVars>>

\* the page unmounts: cleanup of the camera effect and of the hook's own effect
CameraTeardown ==
  /\ camEffect = "active"
  /\ camEffect' = "cleaned"
  /\ setups' = CancelAll(setups)
  /\ EffectCleanup
  /\ cameraStore' = StoreInit
  /\ storeChanged' = TRUE
  /\ UNCHANGED <<sessionVars, chatVars>>

\* initialize() of setup k settles; setup() goes on unless cancelled
InitializeDone(k, ok) ==
  /\ setups[k].pc = "init"
  /\ landmarkers' = (landmarkers \/ ok)
  /\ modelsLoaded' = ok
  /\ cameraStore' = [cameraStore EXCEPT !.isLoading = FALSE,
                                        !.error = IF ok THEN @ ELSE "models"]
  /\ storeChanged' = TRUE
  /\ initError' = (initError \/ (~ok /\ ~setups[k].cancelled))
  /\ setups' = [setups EXCEPT ![k] = IF ok /\ ~setups[k].cancelled
                                     THEN [@ EXCEPT !.pc = "wait"] ELSE FreeSetup]
  /\ UNCHANGED <<camEffect, camStream, camLeaked, camRaf, camLoops, cameraReady,
                 touchFrames, camStopped>>
  /\ UNCHANGED <<sessionVars, chatVars>>

\* the 100 ms timer of setup k fires; setup() calls startCamera unless cancelled
WaitDone(k) ==
  /\ setups[k].pc = "wait"
  /\ IF setups[k].cancelled
     THEN /\ setups' = [setups EXCEPT ![k] = FreeSetup]
          /\ UNCHANGED <<camRaf, camLoops, cameraStore, storeChanged, camStopped>>
     ELSE IF ~modelsLoaded
     THEN /\ setups' = [setups EXCEPT ![k] = FreeSetup]
          /\ cameraStore' = [cameraStore EXCEPT !.error = "models"]
          /\ storeChanged' = TRUE
          /\ UNCHANGED <<camRaf, camLoops, camStopped>>
     ELSE /\ setups' = [setups EXCEPT ![k].pc = "acquire"]
          /\ camLoops' = IF camRaf THEN camLoops - 1 ELSE camLoops
          /\ camRaf' = FALSE
          /\ camStopped' = FALSE
          /\ UNCHANGED <<cameraStore, storeChanged>>
  /\ UNCHANGED <<camEffect, modelsLoaded, landmarkers, camStream, camLeaked, cameraReady,
                 initError, touchFrames>>
  /\ UNCHANGED <<sessionVars, chatVars>>

\* getUserMedia of startCamera (setup k) settles
CameraAcquired(k, ok) ==
  /\ setups[k].pc = "acquire"
  /\ IF ok
     THEN /\ camLeaked' = (camLeaked \/ camStream = "live")
          /\ camStream' = "live"
          /\ setups' = [j \in SetupIds |->
                          IF j = k THEN [setups[j] EXCEPT !.pc = "play"]
                          ELSE IF setups[j].pc = "play"
                          THEN [setups[j] EXCEPT !.pc = "aborted"] ELSE setups[j]]
          /\ UNCHANGED <<cameraStore, storeChanged>>
     ELSE /\ setups' = [setups EXCEPT ![k] = FreeSetup]
          /\ cameraStore' = [cameraStore EXCEPT !.error = "camera", !.isActive = FALSE]
          /\ storeChanged' = TRUE
          /\ UNCHANGED <<camStream, camLeaked>>
  /\ UNCHANGED <<camEffect, modelsLoaded, landmarkers, camRaf, camLoops, cameraReady,
                 initError, touchFrames, camStopped>>
  /\ UNCHANGED <<sessionVars, chatVars>>

\* video.play() of startCamera (setup k) settles; on success the loop is scheduled
PlayDone(k, ok) ==
  /\ setups[k].pc \in {"play", "aborted"}
  /\ setups[k].pc = "aborted" => ~ok
  /\ ok => camLoops < MaxCamLoops
  /\ setups' = [setups EXCEPT ![k] = FreeSetup]
  /\ storeChanged' = TRUE
  /\ IF ok
     THEN /\ cameraStore' = [cameraStore EXCEPT !.isActive = TRUE]
          /\ camLoops' = camLoops + 1
          /\ camRaf' = TRUE
          /\ cameraReady' = (cameraReady \/ ~setups[k].cancelled)
     ELSE /\ cameraStore' = [cameraStore EXCEPT !.error = "camera", !.isActive = FALSE]
          /\ UNCHANGED <<camLoops, camRaf, cameraReady>>
  /\ UNCHANGED <<camEffect, modelsLoaded, landmarkers, camStream, camLeaked, initError,
                 touchFrames, camStopped>>
  /\ UNCHANGED <<sessionVars, chatVars>>

\* one callback of the analysis loop; `analyse`: the 66 ms throttle has elapsed and
\* the video has data
CameraFrame(analyse, hands) ==
  /\ camLoops > 0
  /\ analyse => camStream = "live"
  /\ (analyse /\ hands # "none") => landmarkers
  /\ (analyse /\ hands = "touching") => touchFrames < MaxTouch
  /\ camRaf' = TRUE
  /\ IF analyse
     THEN /\ cameraStore' = [cameraStore EXCEPT
                               !.nervousHabits = NervousAfter(@, FrameMetrics(hands))]
          /\ touchFrames' = IF hands = "touching" THEN touchFrames + 1 ELSE touchFrames
          /\ storeChanged' = TRUE
     ELSE UNCHANGED <<cameraStore, touchFrames, storeChanged>>
  /\ UNCHANGED <<camEffect, setups, modelsLoaded, landmarkers, camStream, camLeaked,
                 camLoops, cameraReady, initError, camStopped>>
  /\ UNCHANGED <<sessionVars, chatVars>>

NextCamera ==
  \/ CameraMount
  \/ CameraRerun
  \/ CameraTeardown
  \/ \E k \in SetupIds, ok \in BOOLEAN : InitializeDone(k, ok)
  \/ \E k \in SetupIds : WaitDone(k)
  \/ \E k \in SetupIds, ok \in BOOLEAN : CameraAcquired(k, ok)
  \/ \E k \in SetupIds, ok \in BOOLEAN : PlayDone(k, ok)
  \/ \E analyse \in BOOLEAN, hands \in HandsSeen : CameraFrame(analyse, hands)

\* ---- ChatSession and the chat part of the AppStore ------------------------
Inputs == {<<>>, <<" ">>, <<"a", " ">>}
ChatMsg(role, content) == [role |-> role, content |-> content]

\* a session is created at the home page and ChatSession mounts
ChatMount(opening) ==
  /\ route = "home"
  /\ route' = "chat"
  /\ input' = <<>>
  /\ chatMessages' = IF opening /\ Len(chatMessages) = 0
                     THEN <<ChatMsg("assistant", "opening")>> ELSE chatMessages
  /\ UNCHANGED <<isAiTyping, chatPending>>
  /\ UNCHANGED <<sessionVars, bodyVars>>

SetInput(v) ==
  /\ route = "chat"
  /\ v # input
  /\ input' = v
  /\ UNCHANGED <<route, isAiTyping, chatMessages, chatPending>>
  /\ UNCHANGED <<sessionVars, bodyVars>>

HandleSend ==
  /\ route = "chat"
  /\ IF Trim(input) = <<>> \/ isAiTyping
     THEN UNCHANGED chatVars
     ELSE /\ chatPending < MaxChatReq
          /\ Len(chatMessages) + chatPending + 2 <= MaxMsgs
          /\ input' = <<>>
          /\ chatMessages' = Append(chatMessages, ChatMsg("user", Trim(input)))
          /\ isAiTyping' = TRUE
          /\ chatPending' = chatPending + 1
          /\ UNCHANGED route
  /\ UNCHANGED <<sessionVars, bodyVars>>

\* sendMessage of one handleSend settles
SendDone(outcome) ==
  /\ chatPending > 0
  /\ chatPending' = chatPending - 1
  /\ chatMessages' = Append(chatMessages,
                            ChatMsg("assistant", IF outcome = "ok" THEN "reply" ELSE "apology"))
  /\ isAiTyping' = FALSE
  /\ UNCHANGED <<route, input>>
  /\ UNCHANGED <<sessionVars, bodyVars>>

\* ChatSession.handleEnd, once its REST call has settled
ChatHandleEnd ==
  /\ route = "chat"
  /\ route' = "feedback"
  /\ UNCHANGED <<input, isAiTyping, chatMessages, chatPending>>
  /\ UNCHANGED <<sessionVars, bodyVars>>

\* FeedbackView.handleNewSession
HandleNewSession ==
  /\ route = "feedback"
  /\ route' = "home"
  /\ chatMessages' = <<>>
  /\ isAiTyping' = FALSE
  /\ UNCHANGED <<input, chatPending>>
  /\ UNCHANGED <<sessionVars, bodyVars>>

NextChat ==
  \/ \E opening \in BOOLEAN : ChatMount(opening)
  \/ \E v \in Inputs : SetInput(v)
  \/ HandleSend
  \/ \E outcome \in RestOutcomes : SendDone(outcome)
  \/ ChatHandleEnd
  \/ HandleNewSession

Next == NextConn \/ NextTurn \/ NextSpeech \/ NextVoice \/ NextStop \/ NextFail \/ NextWatch
          \/ NextInbound \/ NextEnd \/ NextCamera \/ NextChat

Spec == Init /\ [][Next]_vars

SpecConn == Init /\ [][NextConn]_vars

SpecTurn == Init /\ [][NextTurn]_vars

SpecSpeech == Init /\ [][NextSpeech]_vars

SpecVoice == Init /\ [][NextVoice]_vars

\* a timer that was set and not cleared fires
SpecStop == Init /\ [][NextStop]_vars /\ \A k \in StopIds : WF_vars(StopTimeout(k))

SpecFail == Init /\ [][NextFail]_vars

SpecWatch == Init /\ [][NextWatch]_vars

\* fetchWithTimeout resolves or rejects
SpecEnd ==
  Init /\ [][NextEnd]_vars /\ WF_vars(\E outcome \in RestOutcomes : EndSessionDone(outcome))

\* an utterance that was queued ends (or fails)
SpecInbound == Init /\ [][NextInbound]_vars /\ WF_vars(UtterEnd)

SpecCamera == Init /\ [][NextCamera]_vars

SpecChat == Init /\ [][NextChat]_vars

\* ---- properties ---------------------------------------------------------------
LiveSockets == {i \in SockIds : Live(sockets[i])}

NoTimerPending == \A t \in TimerIds : timers[t] = 0

\* a socket is created by this step
OpensSocket == \E i \in SockIds : sockets'[i].rs = "CONNECTING" /\ sockets[i].rs # "CONNECTING"

\* a reconnect timer with this delay is scheduled by this step
Schedules(delay) ==
  \E t \in TimerIds : timers[t] = 0 /\ timers'[t] = delay /\ timerRef' = t

\* this step handles the open event of a socket
OpenStep == \E i \in SockIds : sockets[i].rs = "CONNECTING" /\ sockets'[i].rs = "OPEN"

\* this step handles a close event with a code other than 1000
AbnormalCloseStep == closeEvt' # 0 /\ closeEvt' # NORMAL_CLOSURE

\* this step handles the Retry click
ManualStep ==
  \E i \in SockIds : /\ sockets'[i].rs = "CONNECTING" /\ sockets'[i].manual
                     /\ ~(sockets[i].rs = "CONNECTING" /\ sockets[i].manual)

\* C1: in a run of abnormal closes with no open in between, the k-th scheduled
\* reconnect delay (k = 0, 1, ...) is min(1000 * 2^k, 16000) ms, at most 5
\* reconnects are scheduled, and 'failed' is entered only after those 5.
C1_BackoffSequence ==
  /\ Len(delayLog) <= 5
  /\ \A k \in 1..Len(delayLog) : delayLog[k] = Min(1000 * (2 ^ (k - 1)), 16000)
  /\ wsStatus = "failed" => Len(delayLog) = 5

C1_Witness == wsStatus = "failed" /\ delayLog = <<1000, 2000, 4000, 8000, 16000>>

\* C2: a close event with code 1000 schedules no reconnect timer and opens no
\* socket, whatever the retry counter is; it leaves counter and status alone.
C2_NormalCloseNoReconnect ==
  [][closeEvt' = NORMAL_CLOSURE =>
       /\ timers' = timers
       /\ timerRef' = timerRef
       /\ ~OpensSocket
       /\ reconnectCount' = reconnectCount
       /\ wsStatus' = wsStatus]_vars

C2_Witness == closeEvt = NORMAL_CLOSURE /\ reconnectCount = WS_MAX_RETRIES

\* C3: while the view is mounted at most one of its sockets is CONNECTING or OPEN.
C3_OneLiveSocket == Mounted => Cardinality(LiveSockets) <= 1

C3_Witness ==
  /\ Mounted
  /\ wsRef # 0
  /\ sockets[wsRef].rs = "OPEN"
  /\ \E i \in SockIds : i # wsRef /\ sockets[i].rs = "CLOSING"

\* C4: when a socket opened by the Retry button closes abnormally before it
\* ever opened, a reconnect with delay 1000 ms is scheduled and the status is
\* 'reconnecting', not 'failed'.
C4_ManualRetryFreshSequence ==
  [][\A i \in SockIds :
       (/\ sockets[i].manual
        /\ sockets[i].rs = "CONNECTING"
        /\ sockets'[i].rs \in {"CLOSED", "FREE"}
        /\ AbnormalCloseStep)
       => (Schedules(1000) /\ wsStatus' = "reconnecting")]_vars

\* C5: from 'failed', and until the user clicks Retry, every step leaves the
\* status 'failed', no reconnect timer pending and no new socket.
C5_FailedIsPermanent ==
  [][(wsStatus = "failed" /\ NoTimerPending /\ ~ManualStep
        /\ \A i \in SockIds : ~sockets[i].manual)
       => (wsStatus' = "failed" /\ NoTimerPending' /\ ~OpensSocket)]_vars

\* C6: handling an open event sets the retry counter to 0 and the status to
\* 'connected'; the first abnormal close after an open schedules a reconnect
\* with delay 1000 ms.
C6_OpenResetsCounter ==
  [][/\ OpenStep => (reconnectCount' = 0 /\ wsStatus' = "connected")
     /\ (AbnormalCloseStep /\ sinceOpen = 0) =>
          (Schedules(1000) /\ delayLog' = <<1000>> /\ wsStatus' = "reconnecting")]_vars

C6_Witness ==
  /\ sinceOpen = 1
  /\ closeEvt = ABNORMAL_CLOSURE
  /\ delayLog = <<1000>>
  /\ wsStatus = "reconnecting"
  /\ reconnectCount = 1

\* this step speaks a welcome message in the mounted view
WelcomeSpeakStep ==
  Mounted /\ Len(synth') > 0 /\ synth'[Len(synth')].src = "welcome" /\ synth' # synth

\* C7: between mount and unmount the welcome message is spoken at most once:
\* no welcome is spoken when one was already spoken since mount.
C7_WelcomeOncePerMount == [][WelcomeSpeakStep => ~welcomeSpoken]_vars

\* C8: whenever the microphone capture is open the turn state is 'listening'.
C8_CaptureOnlyWhileListening == Capturing(recorder) => vstate = "listening"

\* this step is a turn-stop (release, or second tap)
TurnStopStep == (isHolding /\ ~isHolding') \/ (isRecording /\ ~isRecording')

\* C9: a turn-stop (release or toggle-off, with the capture teardown it
\* performs) leaves the turn state 'processing': the teardown does not move
\* the turn state out of 'processing'.
C9_TurnStopEntersProcessing == [][TurnStopStep => vstate' = "processing"]_vars

\* C10: no utterance that was in the speech queue when a turn started is
\* still in it while the capture of that turn is open.
C10_NoOverlapAfterTurnStart ==
  Capturing(recorder) => \A k \in 1..Len(synth) : ~synth[k].old

C10_Witness ==
  /\ Capturing(recorder)
  /\ cutAtStart
  /\ isHolding \/ isRecording
  /\ vstate = "listening"

\* ---- outbound messages, transcript, silence loop -----------------------------
\* a transcript of white space only (the empty one included)
Blank(t) == \A k \in 1..Len(t) : IsSpace(t[k])

\* x is t without the white space at its two ends
Stripped(t, x) ==
  /\ x # <<>>
  /\ ~IsSpace(x[1]) /\ ~IsSpace(x[Len(x)])
  /\ \E a \in 0..Len(t) :
       /\ a + Len(x) <= Len(t)
       /\ x = SubSeq(t, a + 1, a + Len(x))
       /\ \A k \in 1..Len(t) : (k <= a \/ k > a + Len(x)) => IsSpace(t[k])

\* C11: every user_audio_transcript sent has a non-empty text: the trimmed
\* transcript when that is non-empty, the fallback phrase when the transcript
\* is empty or white space only.
C11_SentTextNonEmpty ==
  [][sentMsg'.type = "user_audio_transcript" =>
       /\ sentMsg'.text # <<>>
       /\ IF Blank(transcript) THEN sentMsg'.text = FALLBACK_TEXT
          ELSE Stripped(transcript, sentMsg'.text)]_vars

C11_Witness ==
  sentMsg.type = "user_audio_transcript" /\ sentMsg.text = <<"a", " ", "a">>

C13_DropStillClearsTranscript == [][sentMsg'.type = "dropped" => transcript' = <<>>]_vars

\* this step invokes the silence callback
SilenceFireStep == ~fired /\ fired'

\* C14: in hold mode, when the silence callback fires while the user holds and
\* the capture is open, the turn is submitted: the capture is stopped and the
\* hold ends.
C14_SilenceAutoSubmits ==
  [][(SilenceFireStep /\ voiceInputMode = "hold" /\ isHolding /\ Capturing(recorder)) =>
       (~Capturing(recorder') /\ ~isHolding')]_vars

\* C15: between one attach and the next detach or attach the silence callback
\* is invoked at most once.
C15_SilenceOncePerAttach == [][SilenceFireStep => ~firedOnce]_vars

\* C16: in toggle mode a firing of the silence callback while recording
\* neither stops the capture, nor sends a message, nor changes the turn state.
C16_ToggleIgnoresSilence ==
  [][(SilenceFireStep /\ voiceInputMode = "push" /\ isRecording) =>
       /\ recorder' = recorder /\ micStream' = micStream
       /\ stopsPending' = stopsPending
       /\ sentMsg'.type = "none"
       /\ vstate' = vstate
       /\ isRecording']_vars

C16_Witness ==
  /\ page = "voice" /\ voiceInputMode = "push"
  /\ fired /\ isRecording
  /\ Capturing(recorder) /\ vstate = "listening"

\* C17: no turn-stop handler runs while a turn-start still awaits the
\* microphone acquisition.
C17_NoStopDuringAcquisition == [][TurnStopStep => pendingAcq = 0]_vars

\* C18: a view holds at most one live microphone stream.
C18_OneLiveStream == ~(leaked /\ micStream = "live")

\* C19: after the view is unmounted no reconnect timer is pending.
C19_NoTimerAfterUnmount == phase = "unmounted" => NoTimerPending

\* this step is a startRecording that failed
AcquireFailStep == pendingAcq' < pendingAcq /\ vstate' = "idle"

\* C20: a capture start that fails leaves no microphone stream live.
C20_FailedStartReleasesMic == [][AcquireFailStep => micStream' # "live"]_vars

\* ---- capture stop, malformed frames, end of session -------------------------------
\* this step settles the promise of a stopRecording call with a value
SettleStep ==
  \/ TurnStopStep /\ ~Capturing(recorder)
  \/ \E k \in StopIds : stopsPending[k] = "pending" /\ stopsPending'[k] # "pending"

\* C21: a stopRecording call with no active recorder resolves null at once;
\* one with an active recorder stays pending and resolves once: with the clip
\* (null when no chunk was buffered) on the recorder's stop event, or with
\* null when the 5000 ms timer fires first, and a stop event after that
\* timeout changes nothing; every pending call is eventually settled.
C21_StopResolvesOnce ==
  /\ [][/\ (TurnStopStep /\ ~Capturing(recorder)) => stepLog'.resolved = "null"
        /\ (TurnStopStep /\ Capturing(recorder)) =>
             /\ stepLog'.resolved = "none"
             /\ \E k \in StopIds : stopsPending[k] = "none" /\ stopsPending'[k] = "pending"
        /\ stepLog'.resolved \in {"null", "clip"} => SettleStep
        /\ \A k \in StopIds :
             /\ (stopsPending[k] = "pending" /\ stopsPending'[k] = "none") =>
                  stepLog'.resolved = ClipOrNull(chunks)
             /\ (stopsPending[k] = "pending" /\ stopsPending'[k] = "timedout") =>
                  stepLog'.resolved = "null"
             /\ (stopsPending[k] = "timedout" /\ stopsPending'[k] = "none") =>
                  /\ stepLog'.resolved = "late"
                  /\ sentMsg'.type = "none"
                  /\ UNCHANGED <<recog, transcript, vstate>>]_vars
  /\ \A k \in StopIds : (stopsPending[k] = "pending") ~> (stopsPending[k] # "pending")

C21_Witness ==
  /\ stepLog.resolved = "late"
  /\ chunks
  /\ \A k \in StopIds : stopsPending[k] = "none"

\* C22: a step that handles a frame that is not valid JSON leaves the turn
\* state, the connection status, the retry counter, the displayed prompt, the
\* welcome-played flag and the metrics as they were and queues no utterance.
C22_BadFrameNoEffect ==
  [][stepLog'.frame = "bad" =>
       UNCHANGED <<vstate, wsStatus, reconnectCount, aiQuestion, welcomePlayed, metrics,
                   synth, phase>>]_vars

C22_Witness ==
  /\ stepLog.frame = "bad"
  /\ wsStatus = "connected" /\ ~welcomePlayed /\ aiQuestion = "" /\ synth = <<>>
  /\ vstate = "processing"

C24_EndAsksWhileTurnActive ==
  [][/\ (stepLog'.end # "none" /\ (isHolding \/ isRecording)) =>
          stepLog'.end \in {"refused", "confirmed"}
     /\ stepLog'.end = "refused" => (sentMsg'.type = "none" /\ phase' = phase)]_vars

\* ---- retry exhaustion, connection status, socket identity -----------------------
\* C25: counted from an open event (counter 0), abnormal closes 1 to 5 each
\* leave the status 'reconnecting' with the counter at the number of closes,
\* and the status is 'failed' from the sixth on; right after an open event,
\* that of a socket created by Retry included, the counter is 0.
C25_SixthCloseFails ==
  /\ sinceOpen \in 0..WS_MAX_RETRIES => reconnectCount = sinceOpen
  /\ sinceOpen \in 1..WS_MAX_RETRIES => wsStatus = "reconnecting"
  /\ sinceOpen > WS_MAX_RETRIES => wsStatus = "failed"

C25_Witness ==
  /\ wsRef # 0 /\ sockets[wsRef].manual /\ sockets[wsRef].rs = "OPEN"
  /\ sinceOpen = 0 /\ reconnectCount = 0 /\ wsStatus = "connected"

\* C25 as stated: after five abnormal closes since the open the status is 'failed'
C25_FifthCloseFails == sinceOpen = WS_MAX_RETRIES => wsStatus = "failed"

\* C26: every step that creates a socket leaves the status 'connecting'.
C26_ConnectingUntilOpen == [][OpensSocket => wsStatus' = "connecting"]_vars

StaleCloseStep ==
  /\ closeEvt' # 0
  /\ \E i \in SockIds : i # wsRef /\ sockets'[i] # sockets[i]

\* C28: the close event of a replaced socket changes neither the status nor
\* the counter and schedules nothing, and at most one reconnect timer is pending.
C28_StaleEventsIgnored ==
  /\ [](Cardinality({t \in TimerIds : timers[t] > 0}) <= 1)
  /\ [][StaleCloseStep =>
          (wsStatus' = wsStatus /\ reconnectCount' = reconnectCount /\ timers' = timers)]_vars

\* ---- submission order, watchdog attachment ------------------------------------------
\* C29: a user_audio_transcript goes out only in a step that settles a capture
\* stop, with the recognition stopped, and leaves the transcript empty.
C29_SendAfterStops ==
  [][sentMsg'.type = "user_audio_transcript" =>
       /\ stepLog'.resolved \in {"null", "clip"}
       /\ recog' \in {"off", "stopping"}
       /\ transcript' = <<>>]_vars

\* C30: a turn-stop leaves no silence loop scheduled, and while a turn of the
\* voice view captures, the loop runs on the analyser of that capture.
C30_WatchdogFollowsTurn ==
  /\ [][(page = "voice" /\ TurnStopStep) => ~rafLoop']_vars
  /\ []((page = "voice" /\ Mounted /\ (isHolding \/ isRecording) /\ Capturing(recorder)) =>
          (rafLoop /\ ~loopStale))

\* ---- watchdog loops ------------------------------------------------------------------
\* C31: at most one frame of the silence loop is scheduled, and exactly one
\* while rafRef holds a handle; a stop() with nothing attached leaves the
\* watchdog as it was.
C31_OneSamplingLoop ==
  /\ [](loops = IF rafLoop THEN 1 ELSE 0)
  /\ [][(~rafLoop /\ ~rafLoop' /\ silentFor = -1 /\ ~fired) =>
          UNCHANGED <<loops, silentFor, fired>>]_vars

\* an attach found a loop running, and a frame has run since
C31_Witness ==
  /\ reattached
  /\ rafLoop /\ loops = 1
  /\ silentFor = 0

\* ---- responses: playback, metrics, order -------------------------------------------
\* C32: after a response the turn state does not stay 'processing' or
\* 'speaking' for ever: it becomes 'idle'.
C32_ResponseEndsIdle == (vstate \in {"processing", "speaking"}) ~> (vstate = "idle")

\* C33: the filler count is the sum of the filler words of all the analyses
\* received, and the clarity metric is twice the score of the last analysis
\* that had a numeric one (0 before any).
C33_MetricsFollowAnalyses ==
  /\ metrics.fillerCount = analysisLog.fillers
  /\ metrics.wpm = IF analysisLog.score = -1 THEN 0 ELSE 2 * analysisLog.score

C33_Witness ==
  /\ metrics.fillerCount = MaxFillerCount
  /\ metrics.wpm = 2
  /\ analysisLog.score = 1
  /\ stepLog.frame = "ai2"

C35_EndNoticeThenLeave ==
  /\ [][/\ (endReq = "none" /\ endReq' = "pending") =>
             (sentMsg' = IF SocketOpen(sockets, wsRef) THEN EndSessionMsg ELSE NoMsg)
        /\ (endReq = "pending" /\ endReq' = "none") => phase' = "unmounted"]_vars
  /\ (endReq = "pending") ~> (phase = "unmounted")

C35_Witness ==
  /\ stepLog.end = "timeout"
  /\ phase = "unmounted"
  /\ wsRef # 0 /\ sockets[wsRef].rs = "CLOSING"


\* C36: once stop() has run (the hook's stop or the camera page's teardown) and
\* startCamera has not been called again, no camera stream is live and no
\* analysis loop is scheduled, whatever was still pending when stop() ran.
C36_StoppedMeansReleased ==
  camStopped => (camStream = "none" /\ ~camLeaked /\ camLoops = 0)

C38_NervousHabitsCountTouches == cameraStore.nervousHabits = touchFrames

====
